---- MODULE Spec2Model ----
(***************************************************************************)
(* Model of the appointment booking core of medibuddy-assist:              *)
(*   src/actions/appointments.ts  bookAppointment, getAvailableTimeSlots   *)
(*   src/unnamed/part_004         deductCreditsForAppointment              *)
(* Timestamps are integers counting minutes since local midnight of the    *)
(* first modelled calendar day; a calendar day is DayMinutes long (local   *)
(* time without daylight-saving shifts).  The appointment table is a bag   *)
(* of rows (no query of the code depends on row order), the credit         *)
(* transaction table is kept per user in creation order.                   *)
(***************************************************************************)
EXTENDS Integers, Sequences, FiniteSets, Bags, TLC

\* ---------------------------------------------------------------- constants
APPOINTMENT_CREDIT_COST == 2
SlotMinutes == 30
DayMinutes == 1440
MinCreditsToBook == 2

\* ------------------------------------------------------------------- bounds
MaxBookings == 2
\* concurrent requestPayout calls, and concurrent approvePayout calls
MaxPayoutCalls == 2
\* months that pass while the model runs
MaxMonth == 1
\* concurrent generateVideoToken calls
MaxVideoCalls == 2

Patients == {"p1", "p2"}
\* d3 is a verified doctor who has stored no availability.
Doctors == {"d1", "d2", "d3"}
Users == Patients \cup Doctors
\* p1 holds credits for two appointments, p2 for one.
InitialCredits == [u \in Users |-> IF u = "p1" THEN 4 ELSE IF u = "p2" THEN 2 ELSE 0]

\* Clock readings the model lets `new Date()` return (08:00, 09:15, 09:30).
ClockValues == {480, 555, 570}

\* Availability records (startTime, endTime) doctor d1 may have stored:
\* 09:00-09:30, 09:00-17:00, 09:00-09:45 and one that starts at 10:00 and
\* ends at 09:00 of the next day.  Doctor d2 keeps 09:00-10:00.
Windows == {<<540, 570>>, <<540, 1020>>, <<540, 585>>, <<600, 1980>>}
WindowOfD2 == <<540, 600>>

\* Form data a client may post to bookAppointment: patient, doctor,
\* startTime, endTime.  The form is not restricted to offered slots.
BookRequests ==
    { <<"p1", "d1", 540, 570>>, <<"p1", "d1", 555, 585>>,
      <<"p1", "d1", 570, 570>>, <<"p1", "d1", 1980, 2010>>,
      <<"p1", "d2", 540, 570>>, <<"p1", "d2", 570, 600>>,
      <<"p2", "d1", 540, 570>> }

Calls == 1..MaxBookings

VARIABLES credits, ledger, appointments, verificationStatus,
          availability, calls, slotsResp,
          month, payouts, payoutCalls, approveCalls,
          videoCalls

\* The payout table, the calls working on it and the calendar month.
payVars == <<month, payouts, payoutCalls, approveCalls>>

vars == <<credits, ledger, appointments, verificationStatus,
          availability, calls, slotsResp,
          month, payouts, payoutCalls, approveCalls, videoCalls>>

\* ------------------------------------------------------------ date helpers
addMinutes(t, m) == t + m
addDays(t, n) == t + n * DayMinutes
isBefore(a, b) == a < b
startOfDay(t) == t - (t % DayMinutes)
endOfDay(t) == startOfDay(t) + DayMinutes - 1
\* format(day, "yyyy-MM-dd"): the calendar date, as a day number
formatDate(t) == t \div DayMinutes
\* d.setFullYear(day.getFullYear(), day.getMonth(), day.getDate()):
\* keeps d's time of day and moves it onto day's calendar date
setFullYear(d, day) == startOfDay(day) + (d % DayMinutes)

\* One bookAppointment call: its position (pc), its locals and its response.
\* doctorVerified, overlapAtCall, overlapAtRecheck, deducted and created
\* are history fields
\* that record what the call met and did; no action reads them.
IdleCall == [pc |-> "idle", patientId |-> "none", doctorId |-> "none",
             startTime |-> 0, endTime |-> 0,
             doctorVerified |-> FALSE,
             overlapAtCall |-> FALSE, overlapAtRecheck |-> FALSE,
             deducted |-> FALSE, created |-> FALSE,
             response |-> [success |-> FALSE, error |-> "pending"]]

\* The last outcome of getAvailableTimeSlots together with what it read:
\* the clock, the availability record and the doctor's SCHEDULED intervals.
NoResp == [status |-> "none", error |-> "", doctorId |-> "none", now |-> 0,
           window |-> <<0, 0>>, booked |-> {}, days |-> <<>>]

\* What db.availability.findFirst has to go on for a doctor without an
\* AVAILABLE record.
NoAvailability == [startTime |-> 0, endTime |-> 0, status |-> "NONE"]

PayoutCallIds == 1..MaxPayoutCalls

\* One requestPayout call: position, the doctor row it read, its outcome.
IdlePayoutCall == [pc |-> "idle", doctorId |-> "none", creditCount |-> 0,
                   outcome |-> "pending"]

\* One approvePayout call: position, the payout it read, its outcome.
IdleApproveCall == [pc |-> "idle", payoutId |-> 0, doctorId |-> "none",
                    payoutCredits |-> 0, outcome |-> "pending"]

InitPayVars ==
    /\ month = 0
    /\ payouts = <<>>
    /\ payoutCalls = [c \in PayoutCallIds |-> IdlePayoutCall]
    /\ approveCalls = [c \in PayoutCallIds |-> IdleApproveCall]

VideoCallIds == 1..MaxVideoCalls
NoAppointment ==
    [patientId |-> "none", doctorId |-> "none", startTime |-> 0, endTime |-> 0,
     status |-> "NONE", videoSessionToken |-> "none"]
\* A generateVideoToken call: who calls, the appointment row it read, its
\* `new Date()`, the token it got and its response.
IdleVideoCall ==
    [pc |-> "idle", userId |-> "none", appointment |-> NoAppointment,
     now |-> 0, token |-> "none",
     response |-> [success |-> FALSE, error |-> "pending"]]

Init ==
    /\ credits = InitialCredits
    /\ ledger = [u \in Users |-> <<>>]
    /\ appointments = EmptyBag
    /\ verificationStatus = [d \in Doctors |-> "VERIFIED"]
    /\ \E w \in Windows :
          availability = [d \in Doctors |->
              IF d = "d3" THEN NoAvailability
              ELSE LET x == IF d = "d1" THEN w ELSE WindowOfD2
                   IN  [startTime |-> x[1], endTime |-> x[2],
                        status |-> "AVAILABLE"]]
    /\ calls = [c \in Calls |-> IdleCall]
    /\ slotsResp = NoResp
    /\ InitPayVars
    /\ videoCalls = [c \in VideoCallIds |-> IdleVideoCall]

\* ------------------------------------------------------------ bookAppointment
\* A recheck that only looks for an appointment running at the new start.
BookingConflict_StartOnly(a, doctorId, startTime, endTime) ==
    /\ a.doctorId = doctorId
    /\ a.status = "SCHEDULED"
    /\ a.startTime <= startTime /\ a.endTime > startTime

\* The `where` of db.appointment.findFirst: an existing appointment a of the
\* doctor that is SCHEDULED and matches one of the three OR branches.
BookingConflict(a, doctorId, startTime, endTime) ==
    /\ a.doctorId = doctorId
    /\ a.status = "SCHEDULED"
    /\ \/ (a.startTime <= startTime /\ a.endTime > startTime)
       \/ (a.startTime < endTime /\ a.endTime >= endTime)
       \/ (a.startTime >= startTime /\ a.endTime <= endTime)

overlappingAppointment(appts, doctorId, startTime, endTime) ==
    \E a \in BagToSet(appts) : BookingConflict(a, doctorId, startTime, endTime)

\* Half-open overlap of [a, b) and [c, d), the rule the claims are stated in
HalfOpenOverlap(a, b, c, d) == a < d /\ c < b

ScheduledOverlap(appts, doctorId, startTime, endTime) ==
    \E a \in BagToSet(appts) :
        /\ a.doctorId = doctorId
        /\ a.status = "SCHEDULED"
        /\ HalfOpenOverlap(startTime, endTime, a.startTime, a.endTime)

Fail(msg) == [success |-> FALSE, error |-> msg]
\* A call that has returned: its locals are gone, its response stays.
Returned(r, resp) ==
    [r EXCEPT !.pc = "done", !.response = resp, !.patientId = "none",
              !.doctorId = "none", !.startTime = 0, !.endTime = 0]
Ok == [success |-> TRUE, error |-> ""]

\* A bookAppointment that looks the doctor up by id alone.
BookBegin_AnyDoctor(c, p, d, st, en) ==
    /\ calls[c].pc = "idle"
    /\ \A k \in Calls : k < c => calls[k].pc # "idle"
    /\ LET base == [IdleCall EXCEPT !.patientId = p, !.doctorId = d,
                       !.startTime = st, !.endTime = en,
                       !.doctorVerified = (verificationStatus[d] = "VERIFIED"),
                       !.overlapAtCall =
                           ScheduledOverlap(appointments, d, st, en)]
       IN  calls' = [calls EXCEPT ![c] =
              IF credits[p] < MinCreditsToBook
              THEN Returned(base, Fail("Insufficient credits"))
              ELSE [base EXCEPT !.pc = "recheck"]]
    /\ UNCHANGED <<credits, ledger, appointments, verificationStatus,
                   availability, slotsResp>>
    /\ UNCHANGED <<payVars, videoCalls>>

\* Lines 58-110: auth, patient lookup, form parsing, doctor lookup and the
\* credit check on the patient row read at the start of the call.  Callers
\* are signed-in patients and post all three form fields.
BookBegin(c, p, d, st, en) ==
    /\ calls[c].pc = "idle"
    /\ \A k \in Calls : k < c => calls[k].pc # "idle"
    /\ LET base == [IdleCall EXCEPT !.patientId = p, !.doctorId = d,
                       !.startTime = st, !.endTime = en,
                       !.doctorVerified = (verificationStatus[d] = "VERIFIED"),
                       !.overlapAtCall =
                           ScheduledOverlap(appointments, d, st, en)]
       IN  calls' = [calls EXCEPT ![c] =
              IF verificationStatus[d] # "VERIFIED"
              THEN Returned(base, Fail("Doctor not found or not verified"))
              ELSE IF credits[p] < MinCreditsToBook
              THEN Returned(base, Fail("Insufficient credits"))
              ELSE [base EXCEPT !.pc = "recheck"]]
    /\ UNCHANGED <<credits, ledger, appointments, verificationStatus,
                   availability, slotsResp>>
    /\ UNCHANGED <<payVars, videoCalls>>

\* Lines 112-154: the overlap recheck, then createVideoSession, which talks
\* to the video service only and either returns a session id or throws.
BookRecheck(c) ==
    /\ calls[c].pc = "recheck"
    /\ LET r == calls[c]
           seen == [r EXCEPT !.overlapAtRecheck =
                       ScheduledOverlap(appointments, r.doctorId,
                                        r.startTime, r.endTime)]
       IN  IF overlappingAppointment(appointments, r.doctorId,
                                     r.startTime, r.endTime)
           THEN calls' = [calls EXCEPT ![c] =
                   Returned(seen, Fail("This time slot is already booked"))]
           ELSE \/ calls' = [calls EXCEPT ![c] = [seen EXCEPT !.pc = "deduct"]]
                \/ calls' = [calls EXCEPT ![c] =
                      Returned(seen, Fail("Failed to create video session"))]
    /\ UNCHANGED <<credits, ledger, appointments, verificationStatus,
                   availability, slotsResp>>
    /\ UNCHANGED <<payVars, videoCalls>>

\* deductCreditsForAppointment, lines 113-133: reads both users and checks
\* the patient's current balance.
DeductRead(c) ==
    /\ calls[c].pc = "deduct"
    /\ calls' = [calls EXCEPT ![c] =
          IF credits[calls[c].patientId] < APPOINTMENT_CREDIT_COST
          THEN Returned(calls[c], Fail("Insufficient credits to book an appointment"))
          ELSE [calls[c] EXCEPT !.pc = "deductTx"]]
    /\ UNCHANGED <<credits, ledger, appointments, verificationStatus,
                   availability, slotsResp>>
    /\ UNCHANGED <<payVars, videoCalls>>

\* A creditTransaction row: createdAt is kept as the calendar month, and
\* packageId is "none" where the code leaves it out.
CreditTransaction(u, amt, type, pkg) ==
    [userId |-> u, amount |-> amt, type |-> type, packageId |-> pkg,
     createdAt |-> month]

\* A transaction that charges the patient and forgets to pay the doctor.
DeductTx_NoDoctorCredit(c) ==
    /\ calls[c].pc = "deductTx"
    /\ LET p == calls[c].patientId
           d == calls[c].doctorId
       IN  /\ ledger' = [ledger EXCEPT
                 ![p] = Append(@, CreditTransaction(p, -APPOINTMENT_CREDIT_COST,
                                            "APPOINTMENT_DEDUCTION", "none")),
                 ![d] = Append(@, CreditTransaction(d, APPOINTMENT_CREDIT_COST,
                                            "APPOINTMENT_DEDUCTION", "none"))]
           /\ credits' = [credits EXCEPT
                 ![p] = credits[p] - APPOINTMENT_CREDIT_COST]
    /\ calls' = [calls EXCEPT ![c] = [calls[c] EXCEPT !.pc = "create", !.deducted = TRUE]]
    /\ UNCHANGED <<appointments, verificationStatus, availability, slotsResp>>
    /\ UNCHANGED <<payVars, videoCalls>>

\* deductCreditsForAppointment, lines 136-182: the db.$transaction.
DeductTx(c) ==
    /\ calls[c].pc = "deductTx"
    /\ LET p == calls[c].patientId
           d == calls[c].doctorId
       IN  /\ ledger' = [ledger EXCEPT
                 ![p] = Append(@, CreditTransaction(p, -APPOINTMENT_CREDIT_COST,
                                            "APPOINTMENT_DEDUCTION", "none")),
                 ![d] = Append(@, CreditTransaction(d, APPOINTMENT_CREDIT_COST,
                                            "APPOINTMENT_DEDUCTION", "none"))]
           /\ credits' = [credits EXCEPT
                 ![p] = credits[p] - APPOINTMENT_CREDIT_COST,
                 ![d] = credits[d] + APPOINTMENT_CREDIT_COST]
    /\ calls' = [calls EXCEPT ![c] = [calls[c] EXCEPT !.pc = "create", !.deducted = TRUE]]
    /\ UNCHANGED <<appointments, verificationStatus, availability, slotsResp>>
    /\ UNCHANGED <<payVars, videoCalls>>

\* deductCreditsForAppointment, lines 136-191: the db.$transaction throws
\* (the database rejects or loses it), nothing of it is committed, and the
\* catch block returns success=false, which bookAppointment passes on.
DeductTxFail(c) ==
    /\ calls[c].pc = "deductTx"
    /\ calls' = [calls EXCEPT ![c] =
          Returned(calls[c], Fail("Failed to deduct credits"))]
    /\ UNCHANGED <<credits, ledger, appointments, verificationStatus,
                   availability, slotsResp>>
    /\ UNCHANGED <<payVars, videoCalls>>

\* Lines 166-189: db.appointment.create throws and the catch block of
\* bookAppointment returns success=false.
BookCreateFail(c) ==
    /\ calls[c].pc = "create"
    /\ calls' = [calls EXCEPT ![c] =
          Returned(calls[c], Fail("Failed to book appointment"))]
    /\ UNCHANGED <<credits, ledger, appointments, verificationStatus,
                   availability, slotsResp>>
    /\ UNCHANGED <<payVars, videoCalls>>

\* Lines 166-180: db.appointment.create and the successful return.
BookCreate(c) ==
    /\ calls[c].pc = "create"
    /\ appointments' = appointments (+) SetToBag({
          [patientId |-> calls[c].patientId, doctorId |-> calls[c].doctorId,
           startTime |-> calls[c].startTime, endTime |-> calls[c].endTime,
           status |-> "SCHEDULED", videoSessionToken |-> "none"]})
    /\ calls' = [calls EXCEPT ![c] =
          Returned([calls[c] EXCEPT !.created = TRUE], Ok)]
    /\ UNCHANGED <<credits, ledger, verificationStatus, availability, slotsResp>>
    /\ UNCHANGED <<payVars, videoCalls>>

\* ------------------------------------------------------ getAvailableTimeSlots
\* A query that forgets to ask for the doctor's own appointments.
existingAppointments_AnyDoctor(appts, doctorId, lastDay) ==
    { a \in BagToSet(appts) : a.status = "SCHEDULED" /\ a.startTime <= lastDay }

\* Lines 382-390: SCHEDULED appointments of the doctor starting by lastDay.
existingAppointments(appts, doctorId, lastDay) ==
    { a \in BagToSet(appts) : /\ a.doctorId = doctorId
                              /\ a.status = "SCHEDULED"
                              /\ a.startTime <= lastDay }

\* An overlap test that only looks at the slot's start.
SlotOverlapsAppointment_StartOnly(current, next, a) ==
    current >= a.startTime /\ current < a.endTime

\* Lines 434-438: the three OR branches of the `some` callback.
SlotOverlapsAppointment(current, next, a) ==
    \/ (current >= a.startTime /\ current < a.endTime)
    \/ (next > a.startTime /\ next <= a.endTime)
    \/ (current <= a.startTime /\ next >= a.endTime)

overlaps(current, next, existing) ==
    \E a \in existing : SlotOverlapsAppointment(current, next, a)

TimeSlot(current, next) ==
    [startTime |-> current, endTime |-> next, day |-> formatDate(current)]

\* A loop that stops before a candidate ending exactly at the window end.
LoopContinues_Strict(current, end) ==
    isBefore(addMinutes(current, SlotMinutes), end)

\* A loop that goes on while the candidate merely starts inside the window.
LoopContinues_StartInside(current, end) == isBefore(current, end)

\* Lines 418-421: the loop condition.
LoopContinues(current, end) ==
    \/ isBefore(addMinutes(current, SlotMinutes), end)
    \/ addMinutes(current, SlotMinutes) = end

\* A past test that only skips candidates that have already ended.
IsPastSlot_Ended(current, nowT) == isBefore(addMinutes(current, SlotMinutes), nowT)

\* Lines 424-428: skip past slots.
IsPastSlot(current, nowT) == isBefore(current, nowT)

\* A loop that, on a past candidate, restarts from the clock reading.
RECURSIVE SlotLoop_FromNow(_, _, _, _, _)
SlotLoop_FromNow(current, end, nowT, existing, acc) ==
    IF LoopContinues(current, end)
    THEN LET next == addMinutes(current, SlotMinutes)
         IN  IF IsPastSlot(current, nowT)
             THEN SlotLoop_FromNow(nowT, end, nowT, existing, acc)
             ELSE IF ~overlaps(current, next, existing)
                  THEN SlotLoop_FromNow(next, end, nowT, existing,
                                        Append(acc, TimeSlot(current, next)))
                  ELSE SlotLoop_FromNow(next, end, nowT, existing, acc)
    ELSE acc

\* Lines 418-454: the while loop over one day, acc is the day's slot array.
RECURSIVE SlotLoop(_, _, _, _, _)
SlotLoop(current, end, nowT, existing, acc) ==
    IF LoopContinues(current, end)
    THEN LET next == addMinutes(current, SlotMinutes)
         IN  IF IsPastSlot(current, nowT)
             THEN SlotLoop(next, end, nowT, existing, acc)
             ELSE IF ~overlaps(current, next, existing)
                  THEN SlotLoop(next, end, nowT, existing,
                                Append(acc, TimeSlot(current, next)))
                  ELSE SlotLoop(next, end, nowT, existing, acc)
    ELSE acc

\* An object that only gets a key once a slot is pushed for it.
SetKey_SkipEmpty(entries, key, value) ==
    IF value = <<>> THEN entries
    ELSE Append(entries, [date |-> key, slots |-> value])

\* availableSlotsByDay[key] = value on an object kept as its entries in
\* insertion order: an existing key keeps its place, a new key goes last.
SetKey(entries, key, value) ==
    IF \E i \in 1..Len(entries) : entries[i].date = key
    THEN [i \in 1..Len(entries) |->
             IF entries[i].date = key
             THEN [date |-> key, slots |-> value] ELSE entries[i]]
    ELSE Append(entries, [date |-> key, slots |-> value])

\* Lines 378: days = [now, addDays(now, 1), addDays(now, 2), addDays(now, 3)]
NextDays(nowT) == <<nowT, addDays(nowT, 1), addDays(nowT, 2), addDays(nowT, 3)>>

\* Lines 395-455: the for loop over days; i is the index of the next day.
RECURSIVE DaysLoop(_, _, _, _, _, _)
DaysLoop(days, i, avail, nowT, existing, byDay) ==
    IF i > Len(days) THEN byDay
    ELSE LET day == days[i]
             dayString == formatDate(day)
             availabilityStart == setFullYear(avail.startTime, day)
             availabilityEnd == setFullYear(avail.endTime, day)
             daySlots == SlotLoop(availabilityStart, availabilityEnd, nowT,
                                  existing, <<>>)
         IN  DaysLoop(days, i + 1, avail, nowT, existing,
                      SetKey(byDay, dayString, daySlots))

\* Lines 376-469 for an availability record, a clock reading and the
\* appointment table: the `days` array that is returned.
ComputeDays(avail, nowT, appts, doctorId) ==
    LET days == NextDays(nowT)
        lastDay == endOfDay(days[4])
    IN  DaysLoop(days, 1, avail, nowT,
                 existingAppointments(appts, doctorId, lastDay), <<>>)

ScheduledIntervals(appts, doctorId) ==
    { <<a.startTime, a.endTime>> :
        a \in { x \in BagToSet(appts) : /\ x.doctorId = doctorId
                                        /\ x.status = "SCHEDULED" } }

\* A getAvailableTimeSlots that goes on without an availability record.
GetAvailableTimeSlots_NoAvailabilityCheck(d, t) ==
    /\ slotsResp' =
          [status |-> "ok", error |-> "", doctorId |-> d, now |-> t,
           window |-> <<availability[d].startTime, availability[d].endTime>>,
           booked |-> ScheduledIntervals(appointments, d),
           days |-> ComputeDays(availability[d], t, appointments, d)]
    /\ UNCHANGED <<credits, ledger, appointments, verificationStatus,
                   availability, calls>>
    /\ UNCHANGED <<payVars, videoCalls>>

\* getAvailableTimeSlots(doctorId) with `new Date()` returning t.
GetAvailableTimeSlots(d, t) ==
    /\ slotsResp' =
          IF verificationStatus[d] # "VERIFIED"
          THEN [NoResp EXCEPT !.status = "error", !.doctorId = d,
                   !.error = "Failed to fetch available slots: Doctor not found or not verified"]
          ELSE IF availability[d].status # "AVAILABLE"
          THEN [NoResp EXCEPT !.status = "error", !.doctorId = d,
                   !.error = "Failed to fetch available slots: No availability set by doctor"]
          ELSE [status |-> "ok", error |-> "", doctorId |-> d, now |-> t,
                window |-> <<availability[d].startTime, availability[d].endTime>>,
                booked |-> ScheduledIntervals(appointments, d),
                days |-> ComputeDays(availability[d], t, appointments, d)]
    /\ UNCHANGED <<credits, ledger, appointments, verificationStatus,
                   availability, calls>>
    /\ UNCHANGED <<payVars, videoCalls>>

\* Concurrent bookAppointment calls, interleaved at their database steps.
Next ==
    \/ \E c \in Calls, rq \in BookRequests :
          BookBegin(c, rq[1], rq[2], rq[3], rq[4])
    \/ \E c \in Calls : BookRecheck(c)
    \/ \E c \in Calls : DeductRead(c)
    \/ \E c \in Calls : DeductTx(c)
    \/ \E c \in Calls : DeductTxFail(c)
    \/ \E c \in Calls : BookCreate(c)
    \/ \E c \in Calls : BookCreateFail(c)

Spec == Init /\ [][Next]_vars

\* getAvailableTimeSlots calls over the appointment tables that
\* bookAppointment calls served one after the other leave behind.
NoCallInFlight == \A k \in Calls : calls[k].pc \in {"idle", "done"}

NextSlots ==
    \/ \E d \in Doctors, t \in ClockValues : GetAvailableTimeSlots(d, t)
    \/ \E c \in Calls, rq \in BookRequests :
          NoCallInFlight /\ BookBegin(c, rq[1], rq[2], rq[3], rq[4])
    \/ \E c \in Calls : BookRecheck(c)
    \/ \E c \in Calls : DeductRead(c)
    \/ \E c \in Calls : DeductTx(c)
    \/ \E c \in Calls : BookCreate(c)

SpecSlots == Init /\ [][NextSlots]_vars

\* ------------------------------------------------------ checkAndAllocateCredits
\* Lines 14-18 of the credits actions.
PLAN_CREDITS == [free_user |-> 2, standard |-> 10, premium |-> 24]

\* What Clerk's has({ plan }) answers for each patient (lines 33-51); the
\* subscriptions do not change.
PlanOf == [u \in Patients |-> IF u = "p1" THEN "free_user" ELSE "standard"]

\* user.transactions as the caller hands them over, newest first: element 1
\* is the row written last.
transactionsNewestFirst(u) ==
    [i \in 1..Len(ledger[u]) |-> ledger[u][Len(ledger[u]) + 1 - i]]

\* Lines 56-75: the latest transaction is of this month and of this plan.
AlreadyAllocated(transactions, currentMonth, currentPlan) ==
    /\ Len(transactions) > 0
    /\ transactions[1].createdAt = currentMonth
    /\ transactions[1].packageId = currentPlan

\* An allocation that writes no creditTransaction row.
AllocateTx_NoRecord(u, currentPlan) ==
    /\ credits' = [credits EXCEPT ![u] = @ + PLAN_CREDITS[currentPlan]]
    /\ UNCHANGED ledger

\* Lines 77-96: the db.$transaction of the allocation.
AllocateTx(u, currentPlan) ==
    /\ ledger' = [ledger EXCEPT ![u] =
          Append(@, CreditTransaction(u, PLAN_CREDITS[currentPlan],
                                      "CREDIT_PURCHASE", currentPlan))]
    /\ credits' = [credits EXCEPT ![u] = @ + PLAN_CREDITS[currentPlan]]

\* checkAndAllocateCredits(user) for a patient with a subscription, at a
\* time when it allocates; for other roles, and when AlreadyAllocated, it
\* returns the user as it is (lines 31, 54, 73).
CheckAndAllocateCredits(u) ==
    /\ ~AlreadyAllocated(transactionsNewestFirst(u), month, PlanOf[u])
    /\ AllocateTx(u, PlanOf[u])
    /\ UNCHANGED <<appointments, verificationStatus, availability, calls,
                   slotsResp, videoCalls, payVars>>

\* The calendar month of `new Date()` moves on.
NextMonth ==
    /\ month < MaxMonth
    /\ month' = month + 1
    /\ UNCHANGED <<credits, ledger, appointments, verificationStatus,
                   availability, calls, slotsResp, videoCalls, payouts, payoutCalls,
                   approveCalls>>

\* ---------------------------------------------------------------- requestPayout
PayoutFail(msg) == "Failed to request payout: " \o msg
PayoutReturned(r, out) ==
    [r EXCEPT !.pc = "done", !.outcome = out, !.doctorId = "none",
              !.creditCount = 0]

\* A payout row; timesProcessed counts the approvePayout transactions that
\* were committed for it (no action reads it).
PayoutRow(d, n) ==
    [doctorId |-> d, credits |-> n, status |-> "PROCESSING", timesProcessed |-> 0]

existingPendingPayout(d) ==
    \E i \in DOMAIN payouts :
       payouts[i].doctorId = d /\ payouts[i].status = "PROCESSING"

\* Lines 15-37: the doctor row is read; doctor.credits is the balance of
\* this moment.  Callers are signed-in doctors who post a PayPal email.
PayoutBegin(c, d) ==
    /\ payoutCalls[c].pc = "idle"
    /\ payoutCalls' = [payoutCalls EXCEPT ![c] =
          [pc |-> "check", doctorId |-> d, creditCount |-> credits[d],
           outcome |-> "pending"]]
    /\ UNCHANGED <<credits, ledger, appointments, verificationStatus,
                   availability, calls, slotsResp, videoCalls, month, payouts, approveCalls>>

\* Lines 39-62: db.payout.findFirst for a PROCESSING payout of the doctor,
\* then the checks on the balance read at the start.
PayoutCheck(c) ==
    /\ payoutCalls[c].pc = "check"
    /\ payoutCalls' = [payoutCalls EXCEPT ![c] =
          IF existingPendingPayout(payoutCalls[c].doctorId)
          THEN PayoutReturned(@, PayoutFail(
                 "You already have a pending payout request. Please wait for it to be processed."))
          ELSE IF payoutCalls[c].creditCount = 0
          THEN PayoutReturned(@, PayoutFail("No credits available for payout"))
          ELSE IF payoutCalls[c].creditCount < 1
          THEN PayoutReturned(@, PayoutFail("Minimum 1 credit required for payout"))
          ELSE [@ EXCEPT !.pc = "create"]]
    /\ UNCHANGED <<credits, ledger, appointments, verificationStatus,
                   availability, calls, slotsResp, videoCalls, month, payouts, approveCalls>>

\* Lines 64-82: db.payout.create and the successful return.
PayoutCreate(c) ==
    /\ payoutCalls[c].pc = "create"
    /\ payouts' = Append(payouts,
          PayoutRow(payoutCalls[c].doctorId, payoutCalls[c].creditCount))
    /\ payoutCalls' = [payoutCalls EXCEPT ![c] = PayoutReturned(@, "success")]
    /\ UNCHANGED <<credits, ledger, appointments, verificationStatus,
                   availability, calls, slotsResp, videoCalls, month, approveCalls>>

\* ---------------------------------------------------------------- approvePayout
ApproveFail(msg) == "Failed to approve payout: " \o msg
ApproveReturned(r, out) ==
    [r EXCEPT !.pc = "done", !.outcome = out, !.doctorId = "none",
              !.payoutCredits = 0]

\* Lines 183-204: db.payout.findUnique({ id, status: "PROCESSING" }) with
\* the doctor row, and the two checks.  The admin posts the id of a payout
\* that exists.
ApproveRead(c, id) ==
    /\ approveCalls[c].pc = "idle"
    /\ approveCalls' = [approveCalls EXCEPT ![c] =
          IF payouts[id].status # "PROCESSING"
          THEN ApproveReturned([@ EXCEPT !.payoutId = id],
                 ApproveFail("Payout request not found or already processed"))
          ELSE IF credits[payouts[id].doctorId] < payouts[id].credits
          THEN ApproveReturned([@ EXCEPT !.payoutId = id],
                 ApproveFail("Doctor doesn't have enough credits for this payout"))
          ELSE [pc |-> "tx", payoutId |-> id,
                doctorId |-> payouts[id].doctorId,
                payoutCredits |-> payouts[id].credits, outcome |-> "pending"]]
    /\ UNCHANGED <<credits, ledger, appointments, verificationStatus,
                   availability, calls, slotsResp, videoCalls, month, payouts, payoutCalls>>

\* Lines 206-232: the db.$transaction (payout.update by id alone,
\* user.update, creditTransaction.create) and the successful return.
ApproveTx(c) ==
    /\ approveCalls[c].pc = "tx"
    /\ LET id == approveCalls[c].payoutId
           d  == approveCalls[c].doctorId
           n  == approveCalls[c].payoutCredits
       IN  /\ payouts' = [payouts EXCEPT ![id] =
                 [@ EXCEPT !.status = "PROCESSED",
                           !.timesProcessed = @ + 1]]
           /\ credits' = [credits EXCEPT ![d] = @ - n]
           /\ ledger' = [ledger EXCEPT ![d] =
                 Append(@, CreditTransaction(d, -n, "ADMIN_ADJUSTMENT", "none"))]
    /\ approveCalls' = [approveCalls EXCEPT ![c] = ApproveReturned(@, "success")]
    /\ UNCHANGED <<appointments, verificationStatus, availability, calls,
                   slotsResp, videoCalls, month, payoutCalls>>

\* The state after construction with d1 offering 09:00-17:00.
InitOneWindow == Init /\ availability["d1"].endTime = 1020

\* A new call takes the first unused call record.
FirstIdle(cs, c) == cs[c].pc = "idle" /\ \A k \in 1..(c - 1) : cs[k].pc # "idle"

\* Bookings of the 09:00 slot: one by each patient with d1, one with d2.
CreditsRequests == { rq \in BookRequests : rq[3] = 540 }

\* Concurrent requestPayout and approvePayout calls over the balances that
\* bookAppointment calls served one after the other leave behind.
NextPayout ==
    \/ \E c \in Calls, rq \in CreditsRequests :
          /\ NoCallInFlight /\ FirstIdle(calls, c)
          /\ BookBegin(c, rq[1], rq[2], rq[3], rq[4])
    \/ \E c \in Calls : BookRecheck(c)
    \/ \E c \in Calls : DeductRead(c)
    \/ \E c \in Calls : DeductTx(c)
    \/ \E c \in Calls : BookCreate(c)
    \/ \E c \in PayoutCallIds, d \in Doctors :
          FirstIdle(payoutCalls, c) /\ PayoutBegin(c, d)
    \/ \E c \in PayoutCallIds : PayoutCheck(c)
    \/ \E c \in PayoutCallIds : PayoutCreate(c)
    \/ \E c \in PayoutCallIds, id \in DOMAIN payouts :
          FirstIdle(approveCalls, c) /\ ApproveRead(c, id)
    \/ \E c \in PayoutCallIds : ApproveTx(c)

SpecPayout == InitOneWindow /\ [][NextPayout]_vars

\* Allocations, bookings and payouts served one after the other within a
\* month.
NoPayoutCallInFlight ==
    \A k \in PayoutCallIds : /\ payoutCalls[k].pc \in {"idle", "done"}
                             /\ approveCalls[k].pc \in {"idle", "done"}
Quiet == NoCallInFlight /\ NoPayoutCallInFlight
NextCredits ==
    \/ \E u \in Patients : Quiet /\ CheckAndAllocateCredits(u)
    \/ \E c \in Calls, rq \in CreditsRequests :
          /\ Quiet /\ FirstIdle(calls, c)
          /\ BookBegin(c, rq[1], rq[2], rq[3], rq[4])
    \/ \E c \in Calls : BookRecheck(c)
    \/ \E c \in Calls : DeductRead(c)
    \/ \E c \in Calls : DeductTx(c)
    \/ \E c \in Calls : BookCreate(c)
    \/ \E c \in PayoutCallIds, d \in Doctors :
          Quiet /\ FirstIdle(payoutCalls, c) /\ PayoutBegin(c, d)
    \/ \E c \in PayoutCallIds : PayoutCheck(c)
    \/ \E c \in PayoutCallIds : PayoutCreate(c)
    \/ \E c \in PayoutCallIds, id \in DOMAIN payouts :
          Quiet /\ FirstIdle(approveCalls, c) /\ ApproveRead(c, id)
    \/ \E c \in PayoutCallIds : ApproveTx(c)

SpecCredits == InitOneWindow /\ [][NextCredits]_vars

\* Allocations and bookings served one after the other, over the months.
NextMonthly ==
    \/ \E u \in Patients : NoCallInFlight /\ CheckAndAllocateCredits(u)
    \/ NoCallInFlight /\ NextMonth
    \/ \E c \in Calls, rq \in CreditsRequests :
          /\ NoCallInFlight /\ FirstIdle(calls, c)
          /\ BookBegin(c, rq[1], rq[2], rq[3], rq[4])
    \/ \E c \in Calls : BookRecheck(c)
    \/ \E c \in Calls : DeductRead(c)
    \/ \E c \in Calls : DeductTx(c)
    \/ \E c \in Calls : BookCreate(c)

SpecMonthly == InitOneWindow /\ [][NextMonthly]_vars

\* ------------------------------------------------------------ doctor status
\* updateDoctorStatus, lines 97-121: an admin posts VERIFIED or REJECTED.
UpdateDoctorStatus(d, status) ==
    /\ status \in {"VERIFIED", "REJECTED"}
    /\ verificationStatus' = [verificationStatus EXCEPT ![d] = status]
    /\ UNCHANGED <<credits, ledger, appointments, availability, calls,
                   slotsResp, payVars, videoCalls>>

\* updateDoctorActiveStatus, lines 124-148: suspending sets PENDING,
\* reinstating sets VERIFIED.
UpdateDoctorActiveStatus(d, suspend) ==
    /\ verificationStatus' = [verificationStatus EXCEPT ![d] =
          IF suspend THEN "PENDING" ELSE "VERIFIED"]
    /\ UNCHANGED <<credits, ledger, appointments, availability, calls,
                   slotsResp, payVars, videoCalls>>

\* The admin acts on d1 and d2 while patients book and read slots; the
\* bookAppointment calls start one after the other.
NextAdmin ==
    \/ \E d \in {"d1", "d2"}, status \in {"VERIFIED", "REJECTED"} :
          UpdateDoctorStatus(d, status)
    \/ \E d \in {"d1", "d2"}, suspend \in BOOLEAN :
          UpdateDoctorActiveStatus(d, suspend)
    \/ \E d \in Doctors, t \in ClockValues : GetAvailableTimeSlots(d, t)
    \/ \E c \in Calls, rq \in CreditsRequests :
          NoCallInFlight /\ BookBegin(c, rq[1], rq[2], rq[3], rq[4])
    \/ \E c \in Calls : BookRecheck(c)
    \/ \E c \in Calls : DeductRead(c)
    \/ \E c \in Calls : DeductTx(c)
    \/ \E c \in Calls : BookCreate(c)

SpecAdmin == InitOneWindow /\ [][NextAdmin]_vars

\* ----------------------------------------------------------- generateVideoToken
\* The appointment table generateVideoToken works on: p1 with d1 at 09:00
\* and p2 with d1 at 09:30, both SCHEDULED, and a CANCELLED appointment of
\* p1 with d2.  No token has been stored yet.
VideoTable ==
    { [patientId |-> "p1", doctorId |-> "d1", startTime |-> 540,
       endTime |-> 570, status |-> "SCHEDULED", videoSessionToken |-> "none"],
      [patientId |-> "p2", doctorId |-> "d1", startTime |-> 570,
       endTime |-> 600, status |-> "SCHEDULED", videoSessionToken |-> "none"],
      [patientId |-> "p1", doctorId |-> "d2", startTime |-> 540,
       endTime |-> 570, status |-> "CANCELLED", videoSessionToken |-> "none"] }

\* The id of an appointment row: the rows of VideoTable differ in these
\* columns, and no action changes them.
AppointmentId(a) == <<a.patientId, a.doctorId, a.startTime, a.endTime>>

\* Form data and clock of a generateVideoToken call: the signed-in user,
\* the posted appointmentId and what `new Date()` returns.  The last id
\* belongs to no appointment.
VideoRequests ==
    { <<"p1", <<"p1", "d1", 540, 570>>, 510>>,
      <<"p1", <<"p1", "d1", 540, 570>>, 509>>,
      <<"d1", <<"p1", "d1", 540, 570>>, 555>>,
      <<"p2", <<"p1", "d1", 540, 570>>, 555>>,
      <<"d2", <<"p1", "d1", 540, 570>>, 555>>,
      <<"d1", <<"p2", "d1", 570, 600>>, 480>>,
      <<"p2", <<"p2", "d1", 570, 600>>, 555>>,
      <<"p1", <<"p1", "d2", 540, 570>>, 555>>,
      <<"p1", <<"p1", "d3", 540, 570>>, 555>> }

InitVideo ==
    /\ credits = InitialCredits
    /\ ledger = [u \in Users |-> <<>>]
    /\ appointments = SetToBag(VideoTable)
    /\ verificationStatus = [d \in Doctors |-> "VERIFIED"]
    /\ availability = [d \in Doctors |->
          IF d = "d3" THEN NoAvailability
          ELSE [startTime |-> 540, endTime |-> 1020, status |-> "AVAILABLE"]]
    /\ calls = [c \in Calls |-> IdleCall]
    /\ slotsResp = NoResp
    /\ InitPayVars
    /\ videoCalls = [c \in VideoCallIds |-> IdleVideoCall]

\* db.appointment.findUnique({ id }): the rows with that id.
findAppointment(id) ==
    { a \in BagToSet(appointments) : AppointmentId(a) = id }

\* What vonage.video.generateClientToken returns: the token carries the
\* caller's userId as connection data (lines 282-293).
TokenOf(u) == "token:" \o u

VideoFailed(r, u, t, msg) ==
    [r EXCEPT !.pc = "done", !.userId = u, !.now = t, !.response = Fail(msg)]

\* A generateVideoToken that does not ask whether the caller takes part in
\* the appointment.
VideoRead_NoParticipantCheck(c, u, id, t) ==
    /\ videoCalls[c].pc = "idle"
    /\ videoCalls' = [videoCalls EXCEPT ![c] =
          IF findAppointment(id) = {}
          THEN VideoFailed(@, u, t, "Appointment not found")
          ELSE LET a == CHOOSE x \in findAppointment(id) : TRUE
               IN  IF a.status # "SCHEDULED"
                   THEN VideoFailed([@ EXCEPT !.appointment = a], u, t,
                                    "Appointment not scheduled")
                   ELSE IF a.startTime - t > 30
                   THEN VideoFailed([@ EXCEPT !.appointment = a], u, t,
                                    "Call available 30 minutes before start time")
                   ELSE [@ EXCEPT !.pc = "update", !.userId = u, !.now = t,
                                  !.appointment = a, !.token = TokenOf(u)]]
    /\ UNCHANGED <<credits, ledger, appointments, verificationStatus,
                   availability, calls, slotsResp, payVars>>

\* Lines 215-293: the user and the appointment are read, the three checks
\* are made against `new Date()`, and the token is generated.  Callers are
\* signed-in users who post an appointmentId.
VideoRead(c, u, id, t) ==
    /\ videoCalls[c].pc = "idle"
    /\ videoCalls' = [videoCalls EXCEPT ![c] =
          IF findAppointment(id) = {}
          THEN VideoFailed(@, u, t, "Appointment not found")
          ELSE LET a == CHOOSE x \in findAppointment(id) : TRUE
               IN  IF a.doctorId # u /\ a.patientId # u
                   THEN VideoFailed([@ EXCEPT !.appointment = a], u, t,
                                    "You are not authorized to join this call")
                   ELSE IF a.status # "SCHEDULED"
                   THEN VideoFailed([@ EXCEPT !.appointment = a], u, t,
                                    "Appointment not scheduled")
                   ELSE IF a.startTime - t > 30
                   THEN VideoFailed([@ EXCEPT !.appointment = a], u, t,
                                    "Call available 30 minutes before start time")
                   ELSE [@ EXCEPT !.pc = "update", !.userId = u, !.now = t,
                                  !.appointment = a, !.token = TokenOf(u)]]
    /\ UNCHANGED <<credits, ledger, appointments, verificationStatus,
                   availability, calls, slotsResp, payVars>>

\* Lines 295-309: db.appointment.update({ id }) stores the token and the
\* call returns success.
VideoUpdate(c) ==
    /\ videoCalls[c].pc = "update"
    /\ LET id == AppointmentId(videoCalls[c].appointment)
           old == SetToBag(findAppointment(id))
           new == SetToBag({ [a EXCEPT !.videoSessionToken = videoCalls[c].token] :
                               a \in findAppointment(id) })
       IN  appointments' = (appointments (-) old) (+) new
    /\ videoCalls' = [videoCalls EXCEPT ![c] =
          [@ EXCEPT !.pc = "done", !.response = Ok]]
    /\ UNCHANGED <<credits, ledger, verificationStatus, availability, calls,
                   slotsResp, payVars>>

\* Lines 295-318: db.appointment.update throws and the catch block returns
\* success=false.
VideoUpdateFail(c) ==
    /\ videoCalls[c].pc = "update"
    /\ videoCalls' = [videoCalls EXCEPT ![c] =
          [@ EXCEPT !.pc = "done", !.token = "none",
                    !.response = Fail("Failed to generate video token")]]
    /\ UNCHANGED <<credits, ledger, appointments, verificationStatus,
                   availability, calls, slotsResp, payVars>>

\* Concurrent generateVideoToken calls.
NextVideo ==
    \/ \E c \in VideoCallIds, rq \in VideoRequests :
          FirstIdle(videoCalls, c) /\ VideoRead(c, rq[1], rq[2], rq[3])
    \/ \E c \in VideoCallIds : VideoUpdate(c)
    \/ \E c \in VideoCallIds : VideoUpdateFail(c)

SpecVideo == InitVideo /\ [][NextVideo]_vars

\* ===================================================== helpers of the claims
RespOk == slotsResp.status = "ok"
DayRecords == { slotsResp.days[i] : i \in DOMAIN slotsResp.days }
SlotsOf(rec) == { rec.slots[j] : j \in DOMAIN rec.slots }
AllSlots == UNION { SlotsOf(rec) : rec \in DayRecords }
\* The window of the response projected on the calendar day of a day record
WindowStart(rec) == rec.date * DayMinutes + (slotsResp.window[1] % DayMinutes)
WindowEnd(rec) == rec.date * DayMinutes + (slotsResp.window[2] % DayMinutes)
\* Start times of the candidates of a day: dayStart + k*30min, end <= dayEnd
GridStarts(rec) ==
    { t \in { WindowStart(rec) + k * SlotMinutes :
                k \in 0..(DayMinutes \div SlotMinutes) } :
        t + SlotMinutes <= WindowEnd(rec) }
\* A booked interval has something to do with the calendar day of rec
TouchesDay(b, rec) ==
    LET lo == IF b[1] < b[2] THEN b[1] ELSE b[2]
        hi == IF b[1] < b[2] THEN b[2] ELSE b[1]
    IN  lo < (rec.date + 1) * DayMinutes /\ hi >= rec.date * DayMinutes
StartsOf(rec) == { rec.slots[j].startTime : j \in DOMAIN rec.slots }
CallDone(c) == calls[c].pc = "done"
AlreadyBooked == Fail("This time slot is already booked")

\* ========================================================================= C1
\* C1: no slot returned by getAvailableTimeSlots overlaps, under the
\* half-open rule, a SCHEDULED booked interval b of that doctor that has
\* b.startTime < b.endTime.
C1_SlotsAvoidBookings ==
    RespOk =>
      \A s \in AllSlots : \A b \in slotsResp.booked :
          b[1] < b[2] => ~(s.startTime < b[2] /\ b[1] < s.endTime)

\* d1 is open 09:00-17:00 and has 09:15-09:45 booked: on the first day both
\* 09:00 and 09:30 are withheld and the day starts at 10:00.
C1_Witness ==
    /\ RespOk /\ slotsResp.doctorId = "d1" /\ slotsResp.now = 480
    /\ slotsResp.window = <<540, 1020>>
    /\ <<555, 585>> \in slotsResp.booked
    /\ Len(slotsResp.days) >= 1
    /\ Len(slotsResp.days[1].slots) = 14
    /\ slotsResp.days[1].slots[1].startTime = 600

\* ========================================================================= C2
\* C2: under any interleaving of concurrent bookAppointment calls no two
\* SCHEDULED appointments of the same doctor overlap in time.
C2_NoDoubleBooking ==
    /\ \A a \in BagToSet(appointments) :
          (a.status = "SCHEDULED" /\ a.startTime < a.endTime)
             => CopiesIn(a, appointments) <= 1
    /\ \A a, b \in BagToSet(appointments) :
          (a # b /\ a.doctorId = b.doctorId
             /\ a.status = "SCHEDULED" /\ b.status = "SCHEDULED")
          => ~HalfOpenOverlap(a.startTime, a.endTime, b.startTime, b.endTime)

\* ========================================================================= C3
\* C3 as stated: a bookAppointment call for an interval that overlaps an
\* existing SCHEDULED appointment of the doctor returns success=false with
\* 'This time slot is already booked', creates no appointment and deducts
\* nothing.
C3_Original ==
    \A c \in Calls :
        (CallDone(c) /\ calls[c].overlapAtCall)
        => /\ calls[c].response = AlreadyBooked
           /\ ~calls[c].deducted
           /\ ~calls[c].created

\* C3 amended: such a call returns success=false, creates no appointment and
\* deducts nothing; the error is 'This time slot is already booked' whenever
\* the call gets as far as the overlap recheck, and otherwise the error of
\* the earlier check that stopped it (not verified, insufficient credits).
C3_OverlapRejected ==
    \A c \in Calls :
        /\ (CallDone(c) /\ calls[c].overlapAtCall)
           => /\ calls[c].response \in
                   { AlreadyBooked, Fail("Insufficient credits"),
                     Fail("Doctor not found or not verified") }
              /\ ~calls[c].deducted
              /\ ~calls[c].created
        /\ (CallDone(c) /\ calls[c].overlapAtRecheck)
           => /\ calls[c].response = AlreadyBooked
              /\ ~calls[c].deducted
              /\ ~calls[c].created

C3_Witness ==
    \E c \in Calls :
        /\ CallDone(c) /\ calls[c].overlapAtCall /\ calls[c].overlapAtRecheck
        /\ calls[c].response = AlreadyBooked
        /\ appointments # EmptyBag

\* ========================================================================= C4
\* C4: for each day the slots returned are exactly the candidates
\* dayStart + k*30min with end <= dayEnd that do not start before now and do
\* not overlap any booked interval under the half-open rule, in strictly
\* increasing start order.
C4_ReferenceStarts(rec) ==
    { t \in GridStarts(rec) :
        /\ t >= slotsResp.now
        /\ \A b \in slotsResp.booked :
              ~HalfOpenOverlap(t, t + SlotMinutes, b[1], b[2]) }

C4_ExactlyReferenceSet ==
    RespOk =>
      \A rec \in DayRecords :
          /\ StartsOf(rec) = C4_ReferenceStarts(rec)
          /\ \A j \in DOMAIN rec.slots :
                rec.slots[j].endTime = rec.slots[j].startTime + SlotMinutes
          /\ \A j, k \in DOMAIN rec.slots :
                j < k => rec.slots[j].startTime < rec.slots[k].startTime

\* ========================================================================= C5
\* C5: no returned slot starts before now; with now = 09:15, window
\* 09:00-10:00 and no bookings the first day offers exactly the 09:30 slot;
\* with no bookings every candidate that starts at or after now is offered.
C5_NoPastSlots ==
    RespOk =>
      /\ \A s \in AllSlots : s.startTime >= slotsResp.now
      /\ slotsResp.booked = {} =>
            \A rec \in DayRecords : \A t \in GridStarts(rec) :
                t >= slotsResp.now => t \in StartsOf(rec)
      /\ (slotsResp.now = 555 /\ slotsResp.window = <<540, 600>>
            /\ slotsResp.booked = {})
         => (Len(slotsResp.days) >= 1 /\ StartsOf(slotsResp.days[1]) = {570})

C5_Witness ==
    /\ RespOk /\ slotsResp.now = 555 /\ slotsResp.window = <<540, 600>>
    /\ slotsResp.booked = {}
    /\ Len(slotsResp.days) >= 1
    /\ Len(slotsResp.days[1].slots) = 1
    /\ slotsResp.days[1].slots[1].startTime = 570

\* ========================================================================= C6
\* C6: a booked interval that only shares a boundary with a candidate slot
\* (it ends at the slot's start or starts at the slot's end) does not exclude
\* the slot from getAvailableTimeSlots, and bookAppointment's recheck does
\* not report it as a conflict.
C6_BoundaryOnly(t, b) ==
    /\ b[2] = t \/ b[1] = t + SlotMinutes
    /\ ~HalfOpenOverlap(t, t + SlotMinutes, b[1], b[2])

C6_BoundaryDoesNotExclude ==
    /\ RespOk =>
         \A rec \in DayRecords : \A t \in GridStarts(rec) :
             ( /\ t >= slotsResp.now
               /\ \A b \in slotsResp.booked : C6_BoundaryOnly(t, b) )
             => t \in StartsOf(rec)
    /\ \A rq \in BookRequests :
         ( /\ rq[4] = rq[3] + SlotMinutes
           /\ \A a \in BagToSet(appointments) :
                 (a.doctorId = rq[2] /\ a.status = "SCHEDULED")
                    => C6_BoundaryOnly(rq[3], <<a.startTime, a.endTime>>) )
         => ~overlappingAppointment(appointments, rq[2], rq[3], rq[4])

\* ========================================================================= C7
\* C7: on a day with no bookings and now not after dayStart, a window of
\* exactly k*30 minutes (k >= 1) yields exactly k slots, dayStart + j*30min
\* for j = 0..k-1, the last one ending at dayEnd.
C7_FullWindow ==
    RespOk =>
      \A rec \in DayRecords :
        LET len == WindowEnd(rec) - WindowStart(rec)
            k == len \div SlotMinutes
        IN  ( /\ len >= SlotMinutes /\ len % SlotMinutes = 0
              /\ slotsResp.now <= WindowStart(rec)
              /\ \A b \in slotsResp.booked : ~TouchesDay(b, rec) )
            => /\ Len(rec.slots) = k
               /\ \A j \in 1..k :
                     /\ rec.slots[j].startTime = WindowStart(rec) + (j - 1) * SlotMinutes
                     /\ rec.slots[j].endTime = WindowStart(rec) + j * SlotMinutes
               /\ rec.slots[k].endTime = WindowEnd(rec)

\* 09:00-17:00 read at 08:00: 16 slots, 09:00 through 16:30
C7_Witness ==
    /\ RespOk /\ slotsResp.now = 480 /\ slotsResp.window = <<540, 1020>>
    /\ slotsResp.booked = {}
    /\ Len(slotsResp.days) >= 1
    /\ Len(slotsResp.days[1].slots) = 16
    /\ slotsResp.days[1].slots[16].startTime = 990

\* ========================================================================= C8
\* C8: every returned slot starts a whole number of 30-minute steps after the
\* projected window start of its day, also on days where earlier candidates
\* were skipped.
C8_OnGrid ==
    RespOk =>
      \A rec \in DayRecords : \A s \in SlotsOf(rec) :
          /\ s.startTime >= WindowStart(rec)
          /\ (s.startTime - WindowStart(rec)) % SlotMinutes = 0

\* 09:00-17:00 read at 09:15 with the next day's 09:00 booked: the first day
\* skips 09:00 as past, the second skips 09:00 as booked
C8_Witness ==
    /\ RespOk /\ slotsResp.now = 555 /\ slotsResp.window = <<540, 1020>>
    /\ <<1980, 2010>> \in slotsResp.booked
    /\ Len(slotsResp.days) >= 2
    /\ slotsResp.days[1].slots # <<>>
    /\ slotsResp.days[1].slots[1].startTime = 570
    /\ Len(slotsResp.days[2].slots) = 15
    /\ slotsResp.days[2].slots[1].startTime = 2010

\* ========================================================================= C9
\* C9: every returned slot is exactly 30 minutes long and lies within the
\* availability window of its day.
C9_WithinWindow ==
    RespOk =>
      \A rec \in DayRecords : \A s \in SlotsOf(rec) :
          /\ s.endTime = s.startTime + SlotMinutes
          /\ WindowStart(rec) <= s.startTime
          /\ s.endTime <= WindowEnd(rec)

\* 09:00-09:45: only 09:00-09:30 fits, the remaining 15 minutes do not
C9_Witness ==
    /\ RespOk /\ slotsResp.now = 480 /\ slotsResp.window = <<540, 585>>
    /\ Len(slotsResp.days) >= 1
    /\ Len(slotsResp.days[1].slots) = 1
    /\ slotsResp.days[1].slots[1].endTime = 570

\* ======================================================================== C10
\* C10: a successful getAvailableTimeSlots call returns exactly 4 day
\* records, for the consecutive calendar days from now's date on and in that
\* order; a day without free slots is still there, with no slots.
C10_FourDays ==
    RespOk =>
      /\ Len(slotsResp.days) = 4
      /\ \A i \in 1..4 :
            slotsResp.days[i].date = (slotsResp.now \div DayMinutes) + (i - 1)

\* 09:00-09:30 read at 09:15: the first day is all past, the next is not
C10_Witness ==
    /\ RespOk /\ slotsResp.now = 555 /\ slotsResp.window = <<540, 570>>
    /\ Len(slotsResp.days) = 4
    /\ slotsResp.days[1].slots = <<>>
    /\ slotsResp.days[2].slots # <<>>

\* ======================================================================== C11
\* C11: when the window projected on a day is malformed (daily start >=
\* daily end) getAvailableTimeSlots fails with an error instead of returning
\* a result.
C11_MalformedWindowFails ==
    RespOk =>
      (slotsResp.window[1] % DayMinutes) < (slotsResp.window[2] % DayMinutes)

\* ======================================================================== C12
\* C12: for a doctor without an AVAILABLE availability record
\* getAvailableTimeSlots fails with 'No availability set by doctor' and
\* produces no day record.
C12_NoAvailabilityFails ==
    ( /\ slotsResp.status # "none"
      /\ availability[slotsResp.doctorId].status # "AVAILABLE" )
    => /\ slotsResp.status = "error"
       /\ slotsResp.error =
             "Failed to fetch available slots: No availability set by doctor"
       /\ slotsResp.days = <<>>

C12_Witness ==
    /\ slotsResp.doctorId = "d3"
    /\ slotsResp.status = "error"
    /\ slotsResp.days = <<>>
    /\ availability["d3"].status = "NONE"

\* ======================================================================== C13
\* C13: the day records returned are a function of the availability window,
\* the doctor's booked intervals and now alone (two runs that agree on the
\* three return the same records), and a run changes no stored state.
C13_DaysFromInputs(window, booked, nowT) ==
    ComputeDays([startTime |-> window[1], endTime |-> window[2],
                 status |-> "AVAILABLE"],
                nowT,
                SetToBag({ [patientId |-> "any", doctorId |-> "doc",
                            startTime |-> b[1], endTime |-> b[2],
                            status |-> "SCHEDULED",
                            videoSessionToken |-> "none"] : b \in booked }),
                "doc")

C13_PureFunction ==
    /\ [](RespOk => slotsResp.days =
             C13_DaysFromInputs(slotsResp.window, slotsResp.booked, slotsResp.now))
    /\ [][slotsResp' # slotsResp =>
             UNCHANGED <<credits, ledger, appointments, verificationStatus,
                         availability, payouts, month>>]_vars

\* d1's slots were computed while d2 had an appointment of its own
C13_Witness ==
    /\ RespOk /\ slotsResp.doctorId = "d1" /\ slotsResp.booked = {}
    /\ slotsResp.window = <<540, 1020>>
    /\ Len(slotsResp.days) = 4 /\ Len(slotsResp.days[1].slots) = 16
    /\ \E a \in BagToSet(appointments) : a.doctorId = "d2" /\ a.startTime = 540

\* ======================================================================== C14
\* C14: deductCreditsForAppointment is all-or-nothing and conserving: the
\* step on which it succeeds takes exactly 2 credits from the patient, gives
\* exactly 2 to the doctor and appends exactly the two ledger records; every
\* other step of it, among them those on which it returns success=false,
\* changes no balance and no ledger record.
InDeduct(c) == calls[c].pc \in {"deduct", "deductTx"}

C14_DeductSucceeds(c) ==
    LET p == calls[c].patientId
        d == calls[c].doctorId
    IN  /\ credits' = [credits EXCEPT ![p] = @ - 2, ![d] = @ + 2]
        /\ credits'[p] + credits'[d] = credits[p] + credits[d]
        /\ ledger' = [ledger EXCEPT
              ![p] = Append(@, [userId |-> p, amount |-> -2,
                                type |-> "APPOINTMENT_DEDUCTION",
                                packageId |-> "none", createdAt |-> month]),
              ![d] = Append(@, [userId |-> d, amount |-> 2,
                                type |-> "APPOINTMENT_DEDUCTION",
                                packageId |-> "none", createdAt |-> month])]

C14_AllOrNothing ==
    [][\A c \in Calls :
         (InDeduct(c) /\ calls'[c] # calls[c]) =>
            IF calls'[c].pc = "create"
            THEN C14_DeductSucceeds(c)
            ELSE /\ calls'[c].pc = "deductTx" \/ ~calls'[c].response.success
                 /\ UNCHANGED <<credits, ledger>>]_vars

\* one call was charged, the other got success=false from the deduction
C14_Witness ==
    \E c1, c2 \in Calls :
       /\ calls[c1].pc = "create" /\ calls[c1].deducted
       /\ calls[c1].patientId = "p1" /\ calls[c1].doctorId = "d1"
       /\ calls[c2].pc = "done"
       /\ calls[c2].response = Fail("Failed to deduct credits")
       /\ credits = [InitialCredits EXCEPT !["p1"] = 2, !["d1"] = 2]
       /\ Len(ledger["p1"]) = 1 /\ Len(ledger["d1"]) = 1

\* ======================================================================== C15
\* C15: no credit balance is ever negative, whatever the interleaving of
\* concurrent bookAppointment calls of one patient.
C15_NonNegative == \A u \in Users : credits[u] >= 0

\* ======================================================================== C16
\* C16: a bookAppointment call that returned success=false has taken no
\* credits: the balances are what they were before the call.
C16_FailedBookingKeepsCredits ==
    \A c \in Calls :
       (CallDone(c) /\ ~calls[c].response.success) => ~calls[c].deducted

\* ======================================================================== C17
\* C17: a doctor has at most one payout in status PROCESSING at any time,
\* whatever the interleaving of that doctor's requestPayout calls.
PendingPayouts(d) ==
    { i \in DOMAIN payouts :
        payouts[i].doctorId = d /\ payouts[i].status = "PROCESSING" }

C17_OnePendingPayout ==
    \A d \in Doctors : Cardinality(PendingPayouts(d)) <= 1

\* ======================================================================== C18
\* C18: each payout is processed at most once: the transaction of
\* approvePayout is committed at most once for a payout, also when
\* approvePayout calls for it run concurrently.
C18_ProcessedOnce ==
    \A i \in DOMAIN payouts : payouts[i].timesProcessed <= 1

\* ======================================================================== C19
\* C19: in every reachable state each user's balance equals the initial
\* balance plus the sum of the amounts of that user's creditTransaction
\* records, after any sequence of checkAndAllocateCredits,
\* deductCreditsForAppointment and approvePayout.
RECURSIVE SumAmounts(_)
SumAmounts(rows) ==
    IF rows = <<>> THEN 0 ELSE Head(rows).amount + SumAmounts(Tail(rows))

C19_LedgerConsistency ==
    \A u \in Users : credits[u] = InitialCredits[u] + SumAmounts(ledger[u])

\* p1 was allocated credits and charged for an appointment, d1 was paid
\* for it and the payout of d1 was approved
C19_Witness ==
    /\ \E i \in DOMAIN ledger["p1"] : ledger["p1"][i].type = "CREDIT_PURCHASE"
    /\ \E i \in DOMAIN ledger["p1"] : ledger["p1"][i].type = "APPOINTMENT_DEDUCTION"
    /\ \E i \in DOMAIN ledger["d1"] :
          ledger["d1"][i].type = "ADMIN_ADJUSTMENT" /\ ledger["d1"][i].amount = -2
    /\ \E i \in DOMAIN payouts : payouts[i].status = "PROCESSED"
    /\ credits["d1"] = 0 /\ credits["p1"] = 4

\* ======================================================================== C20
\* C20: a patient whose plan does not change is allocated monthly credits at
\* most once per calendar month, also when appointments are booked between
\* the checkAndAllocateCredits calls.
AllocationsIn(u, m) ==
    { i \in DOMAIN ledger[u] :
        ledger[u][i].type = "CREDIT_PURCHASE" /\ ledger[u][i].createdAt = m }

C20_OncePerMonth ==
    \A u \in Patients, m \in 0..MaxMonth : Cardinality(AllocationsIn(u, m)) <= 1

\* ======================================================================== C21
\* C21: every appointment created by bookAppointment is for an interval
\* that getAvailableTimeSlots would offer for that doctor: startTime <
\* endTime, exactly 30 minutes long, inside the doctor's AVAILABLE daily
\* window and on the slot grid.
OfferableInterval(a) ==
    LET w == availability[a.doctorId]
        dayStart == a.startTime - (a.startTime % DayMinutes)
    IN  /\ a.startTime < a.endTime
        /\ a.endTime - a.startTime = 30
        /\ w.status = "AVAILABLE"
        /\ a.startTime >= dayStart + (w.startTime % DayMinutes)
        /\ a.endTime <= dayStart + (w.endTime % DayMinutes)
        /\ (a.startTime - w.startTime) % 30 = 0

C21_BookedIsOfferable ==
    \A a \in BagToSet(appointments) : OfferableInterval(a)

\* ======================================================================== C22
\* C22: generateVideoToken returns a token, and stores it on the
\* appointment, only when the caller is the appointment's doctor or patient,
\* the appointment is SCHEDULED and it starts at most 30 minutes after now;
\* every step of a call other than its successful return leaves the
\* appointment table as it is.
TokenAllowed(u, a, t) ==
    /\ u \in {a.doctorId, a.patientId}
    /\ a.status = "SCHEDULED"
    /\ a.startTime - t <= 30

VideoSucceeded(r) == r.pc = "done" /\ r.response.success

NotVerifiedError == "Doctor not found or not verified"

C23_OnlyVerifiedDoctors ==
    /\ [](\A c \in Calls :
            (calls[c].pc # "idle" /\ ~calls[c].doctorVerified) =>
               /\ CallDone(c)
               /\ calls[c].response = Fail(NotVerifiedError)
               /\ ~calls[c].deducted /\ ~calls[c].created)
    /\ [][\A c \in Calls :
            (calls[c].pc = "idle" /\ calls'[c].pc # "idle"
               /\ ~calls'[c].doctorVerified)
            => UNCHANGED <<credits, ledger, appointments>>]_vars
    /\ [][(slotsResp' # slotsResp
             /\ verificationStatus[slotsResp'.doctorId] # "VERIFIED")
          => /\ slotsResp'.status = "error"
             /\ slotsResp'.error =
                   "Failed to fetch available slots: " \o NotVerifiedError
             /\ slotsResp'.days = <<>>
             /\ UNCHANGED <<credits, ledger, appointments>>]_vars

\* the first booking and a slot query met a doctor who was not VERIFIED;
\* d1 is VERIFIED again and the second booking went through
C23_Witness ==
    /\ calls[1].pc = "done" /\ ~calls[1].doctorVerified
    /\ calls[1].response = Fail(NotVerifiedError)
    /\ slotsResp.doctorId = "d1" /\ slotsResp.status = "error"
    /\ slotsResp.error = "Failed to fetch available slots: " \o NotVerifiedError
    /\ verificationStatus = [d \in Doctors |-> "VERIFIED"]
    /\ calls[2].pc = "done" /\ calls[2].response = Ok /\ calls[2].created
    /\ \E a \in BagToSet(appointments) : a.doctorId = "d1"
    /\ credits["d2"] = 0
====
